---- MODULE Spec2Model ----
(***************************************************************************)
(* Decision core of the OctoBot tentacles:                                 *)
(*   - EMAgptEvaluator: signal persistence filter (emagpt.py)              *)
(*   - BTCFuturesScalperStrategy: multi-timeframe aggregation and the      *)
(*     flip guard (btc_futures_strategy.py)                                *)
(*   - MakerScalpingModeProducer: trading-state machine                    *)
(*     (maker_scalping_mode.py)                                            *)
(* Notes, weights and thresholds are floats in the source; they are        *)
(* modelled as integers in hundredths (a note of 1.0 is 100, a weight of   *)
(* 0.50 is 50), so a weighted sum is in units of 1/10000.                  *)
(***************************************************************************)
EXTENDS Integers, Sequences, FiniteSets, TLC

VARIABLES
    \* ---- EMAgptEvaluator ----
    persistence_candles,  \* self.persistence_candles (configuration)
    reverse_signal,       \* self.reverse_signal (configuration)
    momentum_lookback,    \* self.momentum_lookback (configuration)
    signal_history,       \* self.signal_history[symbol][time_frame]
    eval_note,            \* self.eval_note
    published,            \* evaluation_completed was called by the last cycle
    raw_trace,            \* per pair: the signals that reached the persistence step
    note_trace,           \* per pair: the notes published for them
    \* ---- BTCFuturesScalperStrategy ----
    evaluator_results,    \* self.evaluator_results
    previous_signal,      \* self.previous_signal
    signal_before,        \* self.previous_signal when the last callback began
    computed,             \* the last callback called _compute_final_signal
    final_signal,         \* final_signal of the last computation
    candidate,            \* which _emit_*_signal the last computation called
    triggered,            \* trade type the last computation passed to trigger_signal
    last_timeframe,       \* timeframe argument of the last matrix_callback
    last_matrix,          \* matrix argument of the last matrix_callback
    scored,               \* the results the last _compute_final_signal read
    neutral_since_emit,   \* NEUTRAL candidates since trigger_signal was last invoked
    \* ---- MakerScalpingModeProducer ----
    state,                \* self.state
    final_eval,           \* self.final_eval
    submitted,            \* submit_trading_evaluation calls made by the last create_state
    candles_since_exit,   \* create_state cycles since the last LONG/SHORT -> NEUTRAL
    \* ---- MakerFirstRangeMRStrategy ----
    range_regime_evaluator, \* self.range_regime_evaluator
    entry_evaluator,      \* self.entry_evaluator
    strategy_note,        \* self.eval_note of the strategy
    matrix_regime,        \* note of the regime evaluator's node in the last matrix
    matrix_entry,         \* note of the entry evaluator's node in the last matrix
    \* ---- MeanReversionEntryEvaluator1m ----
    mr_eval_note,         \* self.eval_note
    mr_published,         \* evaluation_completed has been called
    mr_cycle,             \* what the last evaluate call was given and computed
    \* ---- RangeRegimeEvaluator15m ----
    rr_eval_note,         \* self.eval_note
    rr_published,         \* evaluation_completed has been called
    rr_cycle,             \* what the last evaluate call was given and computed
    \* ---- EMAgptEvaluator, one cycle on numeric candle data ----
    cycle_input,          \* configuration and candle-derived values of the cycle
    cycle_done,           \* the cycle has run
    raised,               \* exception that left evaluate, NoneValue if none
    \* ---- EMAgptEvaluator, candle identity ----
    last_delivery,        \* the pair and candle data of the last callback, if any
    duplicate,            \* the last callback delivered that candle once more
    \* ---- BTCFuturesScalperEvaluator ----
    score_input,          \* candle close and self.indicators[timeframe]
    score_done,           \* _compute_score has returned
    score,                \* its return value, in hundredths
    \* ---- MicroTrendPullbackEvaluator ----
    pullback_input,       \* candle data of the evaluate call
    pullback_done,        \* evaluate has run
    pullback_signal,      \* return value of _analyze_pullback_conditions
    pullback_eval_note,   \* self.eval_note, in hundredths
    \* ---- MicroTrendPullbackStrategyEvaluator ----
    ps_eval_note,         \* self.eval_note of the strategy, in hundredths
    ps_completed,         \* the last matrix_callback called strategy_completed
    ps_callback,          \* arguments of the last matrix_callback
    \* ---- a second EMAgptEvaluator, reverse_signal set the other way ----
    twin_history,         \* its self.signal_history
    twin_eval_note,       \* its self.eval_note
    twin_published        \* its last cycle called evaluation_completed

emaVars == <<persistence_candles, reverse_signal, momentum_lookback,
             signal_history, eval_note, published, raw_trace, note_trace>>
btcVars == <<evaluator_results, previous_signal, signal_before, computed, final_signal, candidate,
             triggered, last_timeframe, last_matrix, scored, neutral_since_emit>>
makerVars == <<state, final_eval, submitted, candles_since_exit>>
strategyVars == <<range_regime_evaluator, entry_evaluator, strategy_note,
                  matrix_regime, matrix_entry>>
mrVars == <<mr_eval_note, mr_published, mr_cycle>>
rrVars == <<rr_eval_note, rr_published, rr_cycle>>
taVars == <<mrVars, rrVars>>
cycleVars == <<cycle_input, cycle_done, raised>>
candleVars == <<last_delivery, duplicate>>
scoreVars == <<score_input, score_done, score>>
pullbackVars == <<pullback_input, pullback_done, pullback_signal,
                  pullback_eval_note>>
psVars == <<ps_eval_note, ps_completed, ps_callback>>
twinVars == <<twin_history, twin_eval_note, twin_published>>
restVars == <<strategyVars, taVars, cycleVars, candleVars, scoreVars,
              pullbackVars, psVars, twinVars>>
vars == <<emaVars, btcVars, makerVars, restVars>>

(***************************************************************************)
(* Bounds                                                                  *)
(***************************************************************************)
MaxCycles == 5          \* signals traced through the persistence step
MaxPersistence == 3     \* largest configured persistence window
Symbols == {"BTC/USDT", "ETH/USDT"}
EvaluatorTimeFrames == {"1m"}
Pairs == Symbols \X EvaluatorTimeFrames
RawSignals == {-1, 0, 1}

(***************************************************************************)
(* Sentinels                                                               *)
(***************************************************************************)
Pending == 999          \* commons_constants.START_PENDING_EVAL_NOTE, not a number of any note scale
NoneValue == "None"     \* Python None

(***************************************************************************)
(* EMAgptEvaluator                                                         *)
(***************************************************************************)
slow_period == 100

\* list.count(value)
Count(history, value) ==
    Cardinality({i \in 1..Len(history) : history[i] = value})

\* the signal left as it is
ReverseSignalNever(signal, reverse) == signal

\* if self.reverse_signal: signal = -signal
ReverseSignal(signal, reverse) ==
    IF reverse THEN 0 - signal ELSE signal

\* history.append(signal) without the eviction
PushHistoryNoEvict(history, signal, window) ==
    Append(history, signal)

\* the newest entry evicted instead of the oldest
PushHistoryEvictNewest(history, signal, window) ==
    LET appended == Append(history, signal)
    IN  IF Len(appended) > window THEN SubSeq(appended, 1, window) ELSE appended

\* history.append(signal); if len(history) > persistence_candles: history.pop(0)
PushHistory(history, signal, window) ==
    LET appended == Append(history, signal)
    IN  IF Len(appended) > window THEN Tail(appended) ELSE appended

\* if signal != 0 and history.count(signal) < persistence_candles: signal = 0
PersistedSignal(history, signal, window) ==
    IF signal # 0 /\ Count(history, signal) < window THEN 0 ELSE signal

\* the history of a pair emptied where it already exists
EnsureHistoryCleared(histories, pair) ==
    [p \in (DOMAIN histories) \cup {pair} |->
        IF p \in DOMAIN histories /\ p # pair THEN histories[p] ELSE << >>]

\* ohlcv_callback, lines 122-125: the history of a pair is created on first use
EnsureHistory(histories, pair) ==
    [p \in (DOMAIN histories) \cup {pair} |->
        IF p \in DOMAIN histories THEN histories[p] ELSE << >>]

TraceLength ==
    LET RECURSIVE Total(_)
        Total(ps) == IF ps = {} THEN 0
                     ELSE LET p == CHOOSE q \in ps : TRUE
                          IN  Len(raw_trace[p]) + Total(ps \ {p})
    IN  Total(Pairs)

\* evaluate returns before the persistence step: insufficient history
\* (line 173), flat slope (line 185) or no-trade zone (line 197)
EvaluateEarlyReturn(pair, closes_len, slope_flat, no_trade) ==
    /\ closes_len < slow_period + 2 \/ slope_flat \/ no_trade
    /\ signal_history' = EnsureHistory(signal_history, pair)
    /\ eval_note' = Pending
    /\ published' = FALSE
    /\ raised' = NoneValue
    /\ UNCHANGED <<persistence_candles, reverse_signal, momentum_lookback,
                   raw_trace, note_trace>>
    /\ UNCHANGED <<btcVars, makerVars, strategyVars, taVars, cycle_input, cycle_done,
                   scoreVars, pullbackVars, psVars>>

\* evaluate passes the three filters and closes[-self.momentum_lookback]
\* (line 202) raises IndexError: the lookback reaches before the first close
EvaluateIndexError(pair, closes_len) ==
    /\ closes_len >= slow_period + 2
    /\ momentum_lookback > closes_len
    /\ signal_history' = EnsureHistory(signal_history, pair)
    /\ eval_note' = Pending
    /\ published' = FALSE
    /\ raised' = "IndexError"
    /\ UNCHANGED <<persistence_candles, reverse_signal, momentum_lookback,
                   raw_trace, note_trace>>
    /\ UNCHANGED <<btcVars, makerVars, strategyVars, taVars, cycle_input, cycle_done,
                   scoreVars, pullbackVars, psVars>>

\* evaluate reaches the persistence step with the direction derived at
\* lines 205-219
EvaluateSignal(pair, closes_len, direction) ==
    /\ closes_len >= slow_period + 2
    /\ momentum_lookback <= closes_len
    /\ TraceLength < MaxCycles
    /\ LET histories == EnsureHistory(signal_history, pair)
           signal == ReverseSignal(direction, reverse_signal)
           history == PushHistory(histories[pair], signal, persistence_candles)
           note == PersistedSignal(history, signal, persistence_candles)
       IN  /\ signal_history' = [histories EXCEPT ![pair] = history]
           /\ eval_note' = note
           /\ published' = TRUE
           /\ raw_trace' = [raw_trace EXCEPT ![pair] = Append(@, signal)]
           /\ note_trace' = [note_trace EXCEPT ![pair] = Append(@, note)]
    /\ raised' = NoneValue
    /\ UNCHANGED <<persistence_candles, reverse_signal, momentum_lookback>>
    /\ UNCHANGED <<btcVars, makerVars, strategyVars, taVars, cycle_input, cycle_done,
                   scoreVars, pullbackVars, psVars>>

\* numbers of closes the exchange returns; none exceeds the requested depth,
\* which is at least slow_period + 50 (line 127)
ClosesLengths == {slow_period + 1, slow_period + 2, slow_period + 50}
MomentumLookbacks == {3, 150}

ohlcv_callback ==
    /\ \E pair \in Pairs, closes_len \in ClosesLengths :
           \/ \E slope_flat \in BOOLEAN, no_trade \in BOOLEAN :
                  EvaluateEarlyReturn(pair, closes_len, slope_flat, no_trade)
           \/ EvaluateIndexError(pair, closes_len)
           \/ \E direction \in RawSignals :
                  EvaluateSignal(pair, closes_len, direction)
    /\ UNCHANGED <<candleVars, twinVars>>

(***************************************************************************)
(* EMAgptEvaluator.ohlcv_callback with the identity of the candle: the     *)
(* callback receives the candle but reads the closes from the exchange     *)
(* data and passes the candle to get_eval_time only (lines 129-158,        *)
(* 240-243), so a candle delivered a second time runs the same cycle on    *)
(* the same data.                                                          *)
(***************************************************************************)
MaxDeliveries == 2      \* signals traced through the persistence step

\* what the exchange data of one candle make of the cycle
CandleData ==
    [closes_len : ClosesLengths,
     slope_flat : BOOLEAN,
     direction : RawSignals]

\* ohlcv_callback and evaluate for one pair on the data of one candle
RunCycle(pair, data) ==
    \/ EvaluateEarlyReturn(pair, data.closes_len, data.slope_flat, FALSE)
    \/ /\ ~data.slope_flat
       /\ EvaluateIndexError(pair, data.closes_len)
    \/ /\ ~data.slope_flat
       /\ TraceLength < MaxDeliveries
       /\ EvaluateSignal(pair, data.closes_len, data.direction)

\* a candle not delivered before
FreshCandle ==
    \E pair \in Pairs, data \in CandleData :
        /\ RunCycle(pair, data)
        /\ last_delivery' = {[pair |-> pair, data |-> data]}
        /\ duplicate' = FALSE
        /\ UNCHANGED twinVars

\* the candle of the last callback delivered once more, timestamp unchanged
DuplicateCandle ==
    \E d \in last_delivery :
        /\ RunCycle(d.pair, d.data)
        /\ duplicate' = TRUE
        /\ UNCHANGED <<last_delivery, twinVars>>

(***************************************************************************)
(* Two EMAgptEvaluator instances fed the same candles: the one of the      *)
(* variables above and a second one whose reverse_signal is set the other  *)
(* way, every other setting being equal.                                   *)
(***************************************************************************)
\* the second instance's cycle returns or raises before the persistence step
TwinSilent(pair) ==
    /\ twin_history' = EnsureHistory(twin_history, pair)
    /\ twin_eval_note' = Pending
    /\ twin_published' = FALSE

\* the second instance's cycle reaches the persistence step: lines 221-234
TwinSignal(pair, direction) ==
    LET histories == EnsureHistory(twin_history, pair)
        signal == ReverseSignal(direction, ~reverse_signal)
        history == PushHistory(histories[pair], signal, persistence_candles)
    IN  /\ twin_history' = [histories EXCEPT ![pair] = history]
        /\ twin_eval_note' = PersistedSignal(history, signal, persistence_candles)
        /\ twin_published' = TRUE

\* one candle delivered to both instances
twin_ohlcv_callback ==
    /\ \E pair \in Pairs, closes_len \in ClosesLengths :
           \/ \E slope_flat \in BOOLEAN, no_trade \in BOOLEAN :
                  /\ EvaluateEarlyReturn(pair, closes_len, slope_flat, no_trade)
                  /\ TwinSilent(pair)
           \/ /\ EvaluateIndexError(pair, closes_len)
              /\ TwinSilent(pair)
           \/ \E direction \in RawSignals :
                  /\ EvaluateSignal(pair, closes_len, direction)
                  /\ TwinSignal(pair, direction)
    /\ UNCHANGED candleVars

InitTwin ==
    /\ twin_history = [p \in {} |-> << >>]
    /\ twin_eval_note = Pending
    /\ twin_published = FALSE

InitCandle ==
    /\ last_delivery = {}
    /\ duplicate = FALSE

InitEMA ==
    /\ persistence_candles \in 1..MaxPersistence
    /\ reverse_signal \in BOOLEAN
    /\ momentum_lookback \in MomentumLookbacks
    /\ signal_history = [p \in {} |-> << >>]
    /\ eval_note = Pending
    /\ published = FALSE
    /\ raw_trace = [p \in Pairs |-> << >>]
    /\ note_trace = [p \in Pairs |-> << >>]

(***************************************************************************)
(* BTCFuturesScalperStrategy                                               *)
(***************************************************************************)
ConfiguredTimeFrames == {"1m", "3m", "5m"}
StrategyTimeFrames == ConfiguredTimeFrames \cup {"15m"}
NoteValues == {-100, 0, 100}

\* self.timeframe_weights
timeframe_weights == [tf \in ConfiguredTimeFrames |->
    IF tf = "1m" THEN 50 ELSE IF tf = "3m" THEN 30 ELSE 20]

long_threshold == 6000
short_threshold == -6000

\* the matrix a technical evaluator hands over: its symbol and its note
Matrices == [symbol : Symbols, note : NoteValues]

\* self.evaluator_results[timeframe] = matrix, for every timeframe
StoreAnyResult(results, timeframe, matrix) ==
    [tf \in (DOMAIN results) \cup {timeframe} |->
        IF tf = timeframe THEN matrix ELSE results[tf]]

\* if timeframe in self.timeframe_weights: self.evaluator_results[timeframe] = matrix
StoreResult(results, timeframe, matrix) ==
    IF timeframe \in DOMAIN timeframe_weights
    THEN [tf \in (DOMAIN results) \cup {timeframe} |->
             IF tf = timeframe THEN matrix ELSE results[tf]]
    ELSE results

\* len(self.evaluator_results) == 3
AllTimeframesPresent(results) ==
    Cardinality(DOMAIN results) = 3

\* the score read from the delivered matrix
ExtractScoreFromNote(matrix) == matrix.note

\* _extract_score_from_matrix: the placeholder returns 0.0 for every matrix
ExtractScoreFromMatrix(matrix) == 0

\* sum(scores), scores built over the configured timeframes that have a result
SumScores(results) ==
    LET RECURSIVE Total(_)
        Total(tfs) == IF tfs = {} THEN 0
                      ELSE LET tf == CHOOSE t \in tfs : TRUE
                           IN  ExtractScoreFromMatrix(results[tf]) * timeframe_weights[tf]
                               + Total(tfs \ {tf})
    IN  Total(DOMAIN timeframe_weights \cap DOMAIN results)

\* the thresholds compared strictly
CandidateStrict(signal) ==
    IF signal > long_threshold THEN "LONG"
    ELSE IF signal < short_threshold THEN "SHORT"
    ELSE "NEUTRAL"

\* lines 63-68: which of _emit_long_signal, _emit_short_signal,
\* _emit_neutral_signal is called
Candidate(signal) ==
    IF signal >= long_threshold THEN "LONG"
    ELSE IF signal <= short_threshold THEN "SHORT"
    ELSE "NEUTRAL"

\* a guard that lets every direction through
FlipGuardOpen(previous, current) == TRUE

\* a guard that also rejects the direction already held
FlipGuardFirstOnly(previous, current) == previous = NoneValue

\* _emit_signal, lines 108-113: the emission proceeds when no signal was
\* emitted before or the previous one has the same direction
FlipGuardPasses(previous, current) ==
    previous = NoneValue \/ previous = current

TradeTypeOf(current) == IF current = "LONG" THEN "BUY" ELSE "SELL"

NeutralCap == 3

\* lines 59-68 and the _emit_* method they call, for a computed final_signal
ApplyThresholds(signal) ==
    LET current == Candidate(signal)
    IN  /\ computed' = TRUE
        /\ signal_before' = previous_signal
        /\ final_signal' = signal
        /\ candidate' = current
        /\ IF current = "NEUTRAL"
           THEN \* _emit_neutral_signal: pass
                /\ triggered' = NoneValue
                /\ previous_signal' = previous_signal
                /\ neutral_since_emit' =
                       IF neutral_since_emit < NeutralCap
                       THEN neutral_since_emit + 1 ELSE neutral_since_emit
           ELSE \* _emit_signal
                IF FlipGuardPasses(previous_signal, current)
                THEN /\ previous_signal' = current
                     /\ triggered' = TradeTypeOf(current)
                     /\ neutral_since_emit' = 0
                ELSE /\ previous_signal' = previous_signal
                     /\ triggered' = NoneValue
                     /\ neutral_since_emit' = neutral_since_emit

\* the results read before line 37 stored the arriving matrix
ScoredResultsStale(stored_before, stored_after) == stored_before

\* _compute_final_signal reads self.evaluator_results at lines 50-54, after
\* line 37 stored the arriving matrix
ScoredResults(stored_before, stored_after) == stored_after

NoResults == [tf \in {} |-> [symbol |-> "BTC/USDT", note |-> 0]]

matrix_callback(symbol, timeframe, matrix) ==
    /\ last_timeframe' = timeframe
    /\ last_matrix' = matrix
    /\ evaluator_results' = StoreResult(evaluator_results, timeframe, matrix)
    /\ IF AllTimeframesPresent(evaluator_results')
       THEN /\ scored' = ScoredResults(evaluator_results, evaluator_results')
            /\ ApplyThresholds(SumScores(scored'))
       ELSE /\ scored' = NoResults
            /\ computed' = FALSE
            /\ signal_before' = previous_signal
            /\ final_signal' = 0
            /\ candidate' = NoneValue
            /\ triggered' = NoneValue
            /\ UNCHANGED <<previous_signal, neutral_since_emit>>
    /\ UNCHANGED <<emaVars, makerVars, restVars>>

MatrixCallbackStep ==
    \E symbol \in Symbols, timeframe \in StrategyTimeFrames, note \in NoteValues :
        matrix_callback(symbol, timeframe, [symbol |-> symbol, note |-> note])

\* the decision values the threshold policy is driven with: every multiple
\* of 0.05 in [-1, 1] and the values next to the two thresholds
DecisionValues ==
    {500 * k : k \in -20..20} \cup {5999, 6001, -5999, -6001}

\* _compute_final_signal from line 59 on, for a given final_signal
DecisionStep ==
    \E signal \in DecisionValues :
        /\ ApplyThresholds(signal)
        /\ UNCHANGED <<evaluator_results, last_timeframe, last_matrix, scored>>
        /\ UNCHANGED <<emaVars, makerVars, restVars>>

InitBTC ==
    /\ evaluator_results = [tf \in {} |-> [symbol |-> "BTC/USDT", note |-> 0]]
    /\ previous_signal = NoneValue
    /\ signal_before = NoneValue
    /\ computed = FALSE
    /\ final_signal = 0
    /\ candidate = NoneValue
    /\ triggered = NoneValue
    /\ last_timeframe = NoneValue
    /\ last_matrix = [symbol |-> NoneValue, note |-> 0]
    /\ scored = NoResults
    /\ neutral_since_emit = 0

(***************************************************************************)
(* MakerScalpingModeProducer                                               *)
(***************************************************************************)
cooldown_candles == 3
NotANumber == 998       \* a NaN that is not the pending sentinel

\* the final evaluations handed to create_state, in hundredths
FinalEvals == {Pending, NotANumber, -150, -100, -1, 0, 1, 100, 150}

\* self.final_eval.is_nan()
IsNan(eval) == eval = Pending \/ eval = NotANumber

\* the sign alone, without the is_nan() branch
TargetStateBySign(eval) ==
    IF eval > 0 THEN "LONG"
    ELSE IF eval < 0 THEN "SHORT"
    ELSE "NEUTRAL"

\* zero counted as positive
TargetStateZeroLong(eval) ==
    IF IsNan(eval) THEN "NEUTRAL"
    ELSE IF eval >= 0 THEN "LONG"
    ELSE "SHORT"

\* create_state, lines 304-316: the state handed to _set_state
TargetState(eval) ==
    IF IsNan(eval) THEN "NEUTRAL"
    ELSE IF eval > 0 THEN "LONG"
    ELSE IF eval < 0 THEN "SHORT"
    ELSE "NEUTRAL"

\* an event for every call
SubmissionsAlways(held, new_state) == 1

\* the unset state taken for NEUTRAL
SubmissionsUnsetIsNeutral(held, new_state) ==
    IF new_state # held /\ ~(held = NoneValue /\ new_state = "NEUTRAL")
    THEN 1 ELSE 0

\* _set_state: submit_trading_evaluation is called inside the
\* `if new_state != self.state` branch only
Submissions(held, new_state) ==
    IF new_state # held THEN 1 ELSE 0

\* _set_state: self.state = new_state inside the same branch
StateAfter(held, new_state) ==
    IF new_state # held THEN new_state ELSE held

\* create_state for the final evaluation the strategy left in self.final_eval
create_state(eval) ==
    LET new_state == TargetState(eval)
    IN  /\ final_eval' = eval
        /\ state' = StateAfter(state, new_state)
        /\ submitted' = Submissions(state, new_state)
        /\ candles_since_exit' =
               IF state \in {"LONG", "SHORT"} /\ state' = "NEUTRAL" THEN 0
               ELSE IF candles_since_exit < cooldown_candles
                    THEN candles_since_exit + 1
                    ELSE candles_since_exit
        /\ UNCHANGED <<emaVars, btcVars, restVars>>

set_final_eval ==
    \E eval \in FinalEvals : create_state(eval)

InitMaker ==
    /\ state = NoneValue
    /\ final_eval = 0
    /\ submitted = 0
    /\ candles_since_exit = cooldown_candles

(***************************************************************************)
(* MakerFirstRangeMRStrategy                                               *)
(***************************************************************************)
MissingNote == 997      \* get_eval_from_matrix returned None

RegimeNotes == {MissingNote, Pending, 0, 1}
EntryNotes == {MissingNote, Pending, -1, 0, 1}

\* the node looked up even for an evaluator name that is unset
LookedUpEvalAlways(evaluator_name, node_note) == node_note

\* lines 39-60: get_eval_from_matrix is called only for an evaluator name
\* that is set; it returns the node's note, or None when there is no node
LookedUpEval(evaluator_name, node_note) ==
    IF evaluator_name # NoneValue THEN node_note ELSE MissingNote

\* the entry note whenever both notes are there, whatever the regime
GatedNoteUngated(range_regime_eval, entry_eval) ==
    IF range_regime_eval # MissingNote /\ entry_eval # MissingNote
    THEN entry_eval
    ELSE Pending

\* lines 63-69: final_note
GatedNote(range_regime_eval, entry_eval) ==
    IF range_regime_eval # MissingNote /\ entry_eval # MissingNote
    THEN IF range_regime_eval = 1 THEN entry_eval ELSE Pending
    ELSE Pending

\* MakerFirstRangeMRStrategy.matrix_callback for a matrix whose regime and
\* entry nodes hold regime_note and entry_note
strategy_matrix_callback(regime_note, entry_note) ==
    /\ matrix_regime' = regime_note
    /\ matrix_entry' = entry_note
    /\ strategy_note' =
           GatedNote(LookedUpEval(range_regime_evaluator, regime_note),
                     LookedUpEval(entry_evaluator, entry_note))
    /\ UNCHANGED <<range_regime_evaluator, entry_evaluator>>
    /\ UNCHANGED <<emaVars, btcVars, makerVars, taVars, cycleVars, candleVars,
                   scoreVars, pullbackVars, psVars, twinVars>>

StrategyCallbackStep ==
    \E regime_note \in RegimeNotes, entry_note \in EntryNotes :
        strategy_matrix_callback(regime_note, entry_note)

\* set_default_evaluators: pass
set_default_evaluators ==
    /\ UNCHANGED strategyVars
    /\ UNCHANGED <<emaVars, btcVars, makerVars, taVars, cycleVars, candleVars,
                   scoreVars, pullbackVars, psVars, twinVars>>

\* the strategy after __init__
InitStrategy ==
    /\ range_regime_evaluator = NoneValue
    /\ entry_evaluator = NoneValue
    /\ strategy_note = Pending
    /\ matrix_regime = MissingNote
    /\ matrix_entry = MissingNote

\* the strategy with its two evaluator attributes set or left unset by the
\* trading mode (set_default_evaluators: 'These will be set by the trading
\* mode during initialization')
InitStrategyConfigured ==
    /\ range_regime_evaluator \in {NoneValue, "RangeRegimeEvaluator15m"}
    /\ entry_evaluator \in {NoneValue, "MeanReversionEntryEvaluator1m"}
    /\ strategy_note = Pending
    /\ matrix_regime = MissingNote
    /\ matrix_entry = MissingNote

(***************************************************************************)
(* MeanReversionEntryEvaluator1m                                           *)
(* Prices and band values are integers in one price unit, RSI values are   *)
(* integers.                                                               *)
(***************************************************************************)
bb_period == 20
rsi_period == 14
rsi_overbought == 70
rsi_oversold == 30

Max(a, b) == IF a >= b THEN a ELSE b

\* min_data_length = max(self.bb_period + 2, self.rsi_period + 1)
MeanReversionMinLength == Max(bb_period + 2, rsi_period + 1)

\* what one evaluate call is given: the number of closes, the number of
\* non-NaN band and RSI values, close_candles[-1], bb_lower's last two
\* non-NaN values, bb_upper[-1] and rsi's last two non-NaN values
MeanReversionCycles ==
    [closes_len : {MeanReversionMinLength - 1, MeanReversionMinLength},
     bb_clean_len : {1, 3},
     rsi_clean_len : {1, 8},
     current_close : {90, 100, 110},
     bb_lower_last : {95},
     bb_lower_before : {94, 96},
     bb_upper_last : {105},
     current_rsi : {25, 50, 75},
     previous_rsi : {20, 30, 70, 80}]

\* MeanReversionEntryEvaluator1m.evaluate, lines 87-123: self.eval_note.
\* current_bb_lower is bb_clean[-1] and current_bb_upper is bb_clean[-2],
\* both taken from the cleaned bb_lower array (lines 100, 108, 109)
MeanReversionNote(c) ==
    IF c.closes_len >= MeanReversionMinLength
    THEN IF c.bb_clean_len >= 2 /\ c.rsi_clean_len >= 2
         THEN IF /\ c.current_close <= c.bb_lower_last
                 /\ c.current_rsi < rsi_oversold
                 /\ c.current_rsi > c.previous_rsi
              THEN 1
              ELSE IF /\ c.current_close >= c.bb_lower_before
                      /\ c.current_rsi > rsi_overbought
                      /\ c.current_rsi < c.previous_rsi
                   THEN -1
                   ELSE 0
         ELSE 0
    ELSE 0

\* MeanReversionEntryEvaluator1m.ohlcv_callback and evaluate
mean_reversion_evaluate(c) ==
    /\ mr_cycle' = c
    /\ mr_eval_note' = MeanReversionNote(c)
    /\ mr_published' = TRUE
    /\ UNCHANGED <<emaVars, btcVars, makerVars, strategyVars, rrVars, cycleVars,
                   candleVars, scoreVars, pullbackVars, psVars, twinVars>>

MeanReversionStep ==
    \E c \in MeanReversionCycles : mean_reversion_evaluate(c)

InitMeanReversion ==
    /\ mr_eval_note = Pending
    /\ mr_published = FALSE
    /\ mr_cycle = [closes_len |-> 0, bb_clean_len |-> 0, rsi_clean_len |-> 0,
                   current_close |-> 0, bb_lower_last |-> 0, bb_lower_before |-> 0,
                   bb_upper_last |-> 0, current_rsi |-> 0, previous_rsi |-> 0]

(***************************************************************************)
(* RangeRegimeEvaluator15m                                                 *)
(***************************************************************************)
ema_short_period == 50
ema_long_period == 200
adx_period == 14
adx_threshold == 20

Abs(x) == IF x < 0 THEN 0 - x ELSE x

\* min_data_length = max(self.ema_short_period, self.ema_long_period,
\*                       self.adx_period + 12)
RangeRegimeMinLength ==
    Max(Max(ema_short_period, ema_long_period), adx_period + 12)

\* what one evaluate call is given: the number of closes, the number of
\* non-NaN EMA and ADX values, the last two short-EMA values and the last ADX
RangeRegimeCycles ==
    [closes_len : {RangeRegimeMinLength - 1, RangeRegimeMinLength},
     ema_short_clean_len : {1, 2},
     ema_long_clean_len : {1, 2},
     adx_clean_len : {0, 1},
     current_ema_short : {1000},
     previous_ema_short : {970, 990, 1000, 1030},
     current_adx : {15, 20, 25}]

\* RangeRegimeEvaluator15m.evaluate, lines 76-115: self.eval_note;
\* abs(ema_slope) < current_ema_short * 0.02 is compared in hundredths
RangeRegimeNote(c) ==
    IF c.closes_len >= RangeRegimeMinLength
    THEN IF /\ c.ema_short_clean_len >= 2 /\ c.ema_long_clean_len >= 2
            /\ c.adx_clean_len >= 1
         THEN IF /\ c.current_adx < adx_threshold
                 /\ Abs(c.current_ema_short - c.previous_ema_short) * 100
                        < c.current_ema_short * 2
              THEN 1
              ELSE 0
         ELSE 0
    ELSE 0

\* RangeRegimeEvaluator15m.ohlcv_callback and evaluate
range_regime_evaluate(c) ==
    /\ rr_cycle' = c
    /\ rr_eval_note' = RangeRegimeNote(c)
    /\ rr_published' = TRUE
    /\ UNCHANGED <<emaVars, btcVars, makerVars, strategyVars, mrVars, cycleVars,
                   candleVars, scoreVars, pullbackVars, psVars, twinVars>>

RangeRegimeStep ==
    \E c \in RangeRegimeCycles : range_regime_evaluate(c)

InitRangeRegime ==
    /\ rr_eval_note = Pending
    /\ rr_published = FALSE
    /\ rr_cycle = [closes_len |-> 0, ema_short_clean_len |-> 0,
                   ema_long_clean_len |-> 0, adx_clean_len |-> 0,
                   current_ema_short |-> 0, previous_ema_short |-> 0,
                   current_adx |-> 0]

(***************************************************************************)
(* EMAgptEvaluator.evaluate on numeric candle data                         *)
(* Prices, EMA and ATR values are positive integers in one price unit.     *)
(* The float comparisons of the code are cross-multiplied: every           *)
(* denominator (ema_slow_last, price, closes[-momentum_lookback]) is       *)
(* positive.  The inputs stay off the exact comparison boundaries, where   *)
(* float rounding could decide differently.                                *)
(***************************************************************************)
fast_period == 21
min_slope == 25                  \* 0.00025, in units of 1/100000
price_threshold_percent == 25    \* 0.25 percent, in units of 1/10000
ExceptionNames == {NoneValue, "IndexError"}

\* depth = max(self.fast_period, self.slow_period, self.momentum_lookback) + 50
Depth(lookback) ==
    Max(Max(fast_period, slow_period), lookback) + 50

\* abs(slope) < self.min_slope, slope = (ema_slow[-1] - ema_slow[-2]) / ema_slow_last
SlopeFlat(ema_slow_last, ema_slow_prev) ==
    Abs(ema_slow_last - ema_slow_prev) * 100000 < min_slope * ema_slow_last

\* distance / ema_slow_last > dynamic_threshold, where dynamic_threshold is
\* max(self.price_threshold_percent / 100, atr / price): above the maximum
\* is above both
BeyondThreshold(distance, ema_slow_last, price, atr) ==
    /\ distance * 10000 > price_threshold_percent * ema_slow_last
    /\ distance * price > atr * ema_slow_last

\* ema_distance < dynamic_threshold * 0.8: below the maximum is below one
InNoTradeZone(price, ema_slow_last, atr) ==
    LET distance == Abs(price - ema_slow_last)
    IN  \/ distance * 10000 * 10 < 8 * price_threshold_percent * ema_slow_last
        \/ distance * price * 10 < 8 * atr * ema_slow_last

\* lines 201-219: the raw signal before reversal
RawDirection(c) ==
    IF /\ c.ema_fast_last > c.ema_slow_last
       /\ BeyondThreshold(c.price - c.ema_slow_last, c.ema_slow_last, c.price, c.atr)
       /\ c.price > c.close_back
    THEN 1
    ELSE IF /\ c.ema_fast_last < c.ema_slow_last
            /\ BeyondThreshold(c.ema_slow_last - c.price, c.ema_slow_last,
                               c.price, c.atr)
            /\ c.price < c.close_back
         THEN -1
         ELSE 0

\* where evaluate leaves: one of the three early returns, the index error of
\* closes[-self.momentum_lookback], or the end of the method
CycleOutcome(c) ==
    IF c.closes_len < slow_period + 2 THEN "insufficient"
    ELSE IF SlopeFlat(c.ema_slow_last, c.ema_slow_prev) THEN "flat_slope"
    ELSE IF InNoTradeZone(c.price, c.ema_slow_last, c.atr) THEN "no_trade"
    ELSE IF momentum_lookback > c.closes_len THEN "index_error"
    ELSE "signal"

\* configuration and candle data of one cycle: close_back is
\* closes[-momentum_lookback] where that element exists; the exchange
\* returns at most depth closes
CycleInputs ==
    [pair : Pairs,
     closes_len : {slow_period + 1, slow_period + 20},
     ema_slow_last : {10000},
     ema_slow_prev : {9990, 9999},
     ema_fast_last : {9990, 10010},
     price : {9900, 10019, 10021, 10100, 10300},
     atr : {10, 200},
     close_back : {9950, 10350}]

\* EMAgptEvaluator.ohlcv_callback and evaluate, once, on cycle_input
EvaluateCycle ==
    /\ ~cycle_done
    /\ cycle_done' = TRUE
    /\ LET c == cycle_input
           outcome == CycleOutcome(c)
           histories == EnsureHistory(signal_history, c.pair)
           signal == ReverseSignal(RawDirection(c), reverse_signal)
           history == PushHistory(histories[c.pair], signal, persistence_candles)
           note == PersistedSignal(history, signal, persistence_candles)
       IN  IF outcome = "signal"
           THEN /\ signal_history' = [histories EXCEPT ![c.pair] = history]
                /\ eval_note' = note
                /\ published' = TRUE
                /\ raw_trace' = [raw_trace EXCEPT ![c.pair] = Append(@, signal)]
                /\ note_trace' = [note_trace EXCEPT ![c.pair] = Append(@, note)]
                /\ raised' = NoneValue
           ELSE /\ signal_history' = histories
                /\ eval_note' = Pending
                /\ published' = FALSE
                /\ UNCHANGED <<raw_trace, note_trace>>
                /\ raised' = IF outcome = "index_error" THEN "IndexError"
                                                         ELSE NoneValue
    /\ UNCHANGED <<persistence_candles, reverse_signal, momentum_lookback,
                   cycle_input>>
    /\ UNCHANGED <<btcVars, makerVars, strategyVars, taVars, candleVars,
                   scoreVars, pullbackVars, psVars, twinVars>>

InitCycle ==
    /\ cycle_input = [pair |-> <<"BTC/USDT", "1m">>, closes_len |-> 0,
                      ema_slow_last |-> 0, ema_slow_prev |-> 0,
                      ema_fast_last |-> 0, price |-> 0, atr |-> 0,
                      close_back |-> 0]
    /\ cycle_done = FALSE
    /\ raised = NoneValue

InitCycleInputs ==
    /\ cycle_input \in CycleInputs
    /\ cycle_input.closes_len <= Depth(momentum_lookback)
    /\ cycle_done = FALSE
    /\ raised = NoneValue

(***************************************************************************)
(* BTCFuturesScalperEvaluator._compute_score                               *)
(* Weights and scores are integers in hundredths; prices and RSI values    *)
(* are integers.                                                           *)
(***************************************************************************)
long_weights == [ema200_trend |-> 50, ema50_trend |-> 30, rsi_range |-> 20]
short_weights == [ema200_trend |-> 50, ema50_trend |-> 30, rsi_range |-> 20]

\* _calculate_ema_slope: the placeholder returns 0.0
CalculateEmaSlope == 0

\* lines 138-149
LongScore(c) ==
    (IF c.close > c.ema200 /\ CalculateEmaSlope > 0
     THEN long_weights.ema200_trend ELSE 0)
    + (IF c.close > c.ema50 THEN long_weights.ema50_trend ELSE 0)
    + (IF 45 <= c.rsi /\ c.rsi <= 65 THEN long_weights.rsi_range ELSE 0)

\* lines 139, 152-159
ShortScore(c) ==
    (IF c.close < c.ema200 /\ CalculateEmaSlope < 0
     THEN short_weights.ema200_trend ELSE 0)
    + (IF c.close < c.ema50 THEN short_weights.ema50_trend ELSE 0)
    + (IF 35 <= c.rsi /\ c.rsi <= 55 THEN short_weights.rsi_range ELSE 0)

\* the short score winning a tie
FinalScoreTieShort(long_score, short_score) ==
    IF Abs(long_score) > Abs(short_score) THEN long_score ELSE 0 - short_score

\* final_score = long_score if abs(long_score) >= abs(short_score) else -short_score
FinalScore(long_score, short_score) ==
    IF Abs(long_score) >= Abs(short_score) THEN long_score ELSE 0 - short_score

\* max(-1.0, min(1.0, final_score))
Clamp(final_score) ==
    IF final_score > 100 THEN 100
    ELSE IF final_score < -100 THEN -100 ELSE final_score

ComputeScore(c) == Clamp(FinalScore(LongScore(c), ShortScore(c)))

\* the candle close and the cached indicators _compute_score reads
ScoreInputs ==
    [close : {100},
     ema200 : {90, 100, 110},
     ema50 : {90, 100, 110},
     rsi : {30, 35, 40, 45, 50, 55, 60, 65, 70}]

compute_score ==
    /\ ~score_done
    /\ score_done' = TRUE
    /\ score' = ComputeScore(score_input)
    /\ UNCHANGED score_input
    /\ UNCHANGED <<emaVars, btcVars, makerVars, strategyVars, taVars, cycleVars,
                   candleVars, pullbackVars, psVars, twinVars>>

InitScore ==
    /\ score_input = [close |-> 0, ema200 |-> 0, ema50 |-> 0, rsi |-> 0]
    /\ score_done = FALSE
    /\ score = 0

InitScoreInputs ==
    /\ score_input \in ScoreInputs
    /\ score_done = FALSE
    /\ score = 0

(***************************************************************************)
(* MicroTrendPullbackEvaluator                                             *)
(* Prices are positive integers, notes are integers in hundredths and      *)
(* percentages are cross-multiplied.  The inputs make every division       *)
(* whose result is returned exact.                                         *)
(***************************************************************************)
ema_length == 20
pullback_depth == 30    \* 0.3, compared as self.pullback_depth * 100 percent
NoSignal == 996         \* _analyze_pullback_conditions returns None

\* abs((a - b) / b * 100) > self.pullback_depth * 100, for b > 0
DeeperThanPullback(a, b) == Abs(a - b) * 100 > pullback_depth * b

\* min(1.0, abs(recent_price_change) / 100), in hundredths
PullbackStrength(recent_last, recent_first) ==
    LET change == (Abs(recent_last - recent_first) * 100) \div recent_first
    IN  IF change > 100 THEN 100 ELSE change

\* _analyze_pullback_conditions, lines 141-211; recent_prices[-1] is
\* current_price
AnalyzePullbackConditions(c) ==
    IF c.closes_len < ema_length + 5 THEN NoSignal
    ELSE IF c.current_ema = NotANumber THEN NoSignal
    ELSE LET ema_trend_direction == IF c.current_price > c.current_ema THEN 1 ELSE -1
             rising == (c.current_price - c.recent_first) * 100 > 2 * c.recent_first
             falling == (c.current_price - c.recent_first) * 100 < (-2) * c.recent_first
             strength == PullbackStrength(c.current_price, c.recent_first)
         IN  IF /\ ema_trend_direction < 0
                /\ DeeperThanPullback(c.current_price, c.current_ema)
             THEN IF /\ rising
                     /\ DeeperThanPullback(c.current_price, c.recent_first)
                     /\ c.volume_len >= 5
                     /\ c.volume_confirmation
                  THEN (0 - strength) * ema_trend_direction
                  ELSE NoSignal
             ELSE IF /\ ema_trend_direction > 0
                     /\ DeeperThanPullback(c.current_price, c.current_ema)
                  THEN IF /\ falling
                          /\ DeeperThanPullback(c.current_price, c.recent_first)
                          /\ c.volume_len >= 5
                          /\ c.volume_confirmation
                       THEN strength * ema_trend_direction
                       ELSE NoSignal
                  ELSE NoSignal

\* evaluate, lines 107-129: the note published by evaluation_completed
PullbackNote(c) ==
    IF c.closes_len >= ema_length + 10
    THEN IF AnalyzePullbackConditions(c) # NoSignal
         THEN AnalyzePullbackConditions(c)
         ELSE Pending
    ELSE Pending

\* the candle data of one evaluate call: number of closes, ema_values[-1],
\* close_candles[-1], close_candles[-5], number of volumes and whether
\* volume_candles[-1] exceeds the average times volume_multiplier
PullbackInputs ==
    [closes_len : {ema_length + 9, ema_length + 10},
     current_ema : {100, NotANumber},
     current_price : {60, 80, 100, 120, 140},
     recent_first : {20, 40, 50, 100, 280},
     volume_len : {4, 5},
     volume_confirmation : BOOLEAN]

pullback_evaluate ==
    /\ ~pullback_done
    /\ pullback_done' = TRUE
    /\ pullback_signal' = IF pullback_input.closes_len >= ema_length + 10
                          THEN AnalyzePullbackConditions(pullback_input)
                          ELSE NoSignal
    /\ pullback_eval_note' = PullbackNote(pullback_input)
    /\ UNCHANGED pullback_input
    /\ UNCHANGED <<emaVars, btcVars, makerVars, strategyVars, taVars, cycleVars,
                   candleVars, scoreVars, psVars,
                   twinVars>>

InitPullback ==
    /\ pullback_input = [closes_len |-> 0, current_ema |-> 0, current_price |-> 0,
                         recent_first |-> 0, volume_len |-> 0,
                         volume_confirmation |-> FALSE]
    /\ pullback_done = FALSE
    /\ pullback_signal = NoSignal
    /\ pullback_eval_note = Pending

InitPullbackInputs ==
    /\ pullback_input \in PullbackInputs
    /\ pullback_done = FALSE
    /\ pullback_signal = NoSignal
    /\ pullback_eval_note = Pending

(***************************************************************************)
(* MicroTrendPullbackStrategyEvaluator                                     *)
(* Notes are integers in hundredths.                                       *)
(***************************************************************************)
min_pullback_strength == 30

EvaluatorTypes == {"TA", "SOCIAL"}
EvaluatorNames == {"MicroTrendPullbackEvaluator",
                   "AdvancedMicroTrendPullbackEvaluator",
                   "EMAgptEvaluator"}
DeliveredNotes == {Pending, -100, -30, -29, 0, 29, 50}

\* "MicroTrendPullback" in evaluator_name or
\* "AdvancedMicroTrendPullback" in evaluator_name
IsPullbackEvaluator(evaluator_name) ==
    evaluator_name \in {"MicroTrendPullbackEvaluator",
                        "AdvancedMicroTrendPullbackEvaluator"}

\* evaluators_util.check_valid_eval_note as called at lines 117-118: the
\* note is not the pending sentinel and has the expected type
CheckValidEvalNote(eval_value, type_expected) ==
    eval_value # Pending /\ type_expected

\* every valid note taken over, whatever its strength
PullbackStrategyNoteAnyStrength(current, eval_value, type_expected) ==
    IF CheckValidEvalNote(eval_value, type_expected)
    THEN eval_value
    ELSE current

\* _evaluate_pullback_signal, lines 114-123: self.eval_note afterwards
PullbackStrategyNote(current, eval_value, type_expected) ==
    IF CheckValidEvalNote(eval_value, type_expected)
    THEN IF Abs(eval_value) >= min_pullback_strength THEN eval_value ELSE current
    ELSE current

\* _evaluate_pullback_signal reaches strategy_completed (line 126)
PullbackStrategyCompletes(eval_value, type_expected) ==
    /\ CheckValidEvalNote(eval_value, type_expected)
    /\ Abs(eval_value) >= min_pullback_strength

\* the arguments of one matrix_callback; unset is
\* matrix.get_evaluations_by_evaluator raising UnsetTentacleEvaluation
PullbackCallbacks ==
    [evaluator_name : EvaluatorNames,
     evaluator_type : EvaluatorTypes,
     eval_note : DeliveredNotes,
     type_expected : BOOLEAN,
     unset : BOOLEAN]

\* matrix_callback, lines 80-106
pullback_matrix_callback(cb) ==
    /\ ps_callback' = cb
    /\ IF /\ cb.evaluator_type = "TA"
          /\ ~cb.unset
          /\ IsPullbackEvaluator(cb.evaluator_name)
       THEN /\ ps_eval_note' =
                   PullbackStrategyNote(ps_eval_note, cb.eval_note, cb.type_expected)
            /\ ps_completed' =
                   PullbackStrategyCompletes(cb.eval_note, cb.type_expected)
       ELSE /\ ps_eval_note' = ps_eval_note
            /\ ps_completed' = FALSE
    /\ UNCHANGED <<emaVars, btcVars, makerVars, strategyVars, taVars, cycleVars,
                   candleVars, scoreVars, pullbackVars, twinVars>>

PullbackStrategyStep ==
    \E cb \in PullbackCallbacks : pullback_matrix_callback(cb)

InitPullbackStrategy ==
    /\ ps_eval_note = Pending
    /\ ps_completed = FALSE
    /\ ps_callback = [evaluator_name |-> "None", evaluator_type |-> "None",
                      eval_note |-> Pending, type_expected |-> FALSE,
                      unset |-> FALSE]

(***************************************************************************)
(* Specifications                                                          *)
(***************************************************************************)
InitTA == InitMeanReversion /\ InitRangeRegime

Init ==
    /\ InitEMA /\ InitBTC /\ InitMaker /\ InitStrategy /\ InitTA /\ InitCycle
    /\ InitCandle /\ InitScore /\ InitPullback /\ InitPullbackStrategy /\ InitTwin

InitConfigured ==
    /\ InitEMA /\ InitBTC /\ InitMaker /\ InitStrategyConfigured /\ InitTA
    /\ InitCycle /\ InitCandle /\ InitScore /\ InitPullback
    /\ InitPullbackStrategy /\ InitTwin

\* one candle callback of EMAgptEvaluator on a fresh evaluator, for every
\* configuration and candle data of CycleInputs
InitOneCycle ==
    /\ InitEMA /\ InitBTC /\ InitMaker /\ InitStrategy /\ InitTA /\ InitCycleInputs
    /\ InitCandle /\ InitScore /\ InitPullback /\ InitPullbackStrategy /\ InitTwin

SpecEMACycle == InitOneCycle /\ [][EvaluateCycle]_vars

\* candle callbacks of MeanReversionEntryEvaluator1m
SpecMeanReversion == Init /\ [][MeanReversionStep]_vars

\* candle callbacks of RangeRegimeEvaluator15m
SpecRangeRegime == Init /\ [][RangeRegimeStep]_vars

\* matrix callbacks of MakerFirstRangeMRStrategy, its evaluator attributes
\* set or unset
SpecGate == InitConfigured /\ [][StrategyCallbackStep]_vars

\* the operations of MakerFirstRangeMRStrategy that could write its state
SpecStrategyOps ==
    InitConfigured /\ [][StrategyCallbackStep \/ set_default_evaluators]_vars

\* _compute_score of a fresh BTCFuturesScalperEvaluator applied to every
\* candle close and indicator cache of ScoreInputs; the other components are
\* in one configuration
InitOneScore ==
    /\ InitEMA /\ persistence_candles = 2 /\ ~reverse_signal /\ momentum_lookback = 3
    /\ InitBTC /\ InitMaker /\ InitStrategy /\ InitTA /\ InitCycle /\ InitCandle
    /\ InitScoreInputs /\ InitPullback /\ InitPullbackStrategy /\ InitTwin

SpecScore == InitOneScore /\ [][compute_score]_vars

\* evaluate of a fresh MicroTrendPullbackEvaluator applied to every candle
\* data of PullbackInputs; the other components are in one configuration
InitOnePullback ==
    /\ InitEMA /\ persistence_candles = 2 /\ ~reverse_signal /\ momentum_lookback = 3
    /\ InitBTC /\ InitMaker /\ InitStrategy /\ InitTA /\ InitCycle /\ InitCandle
    /\ InitScore /\ InitPullbackInputs /\ InitPullbackStrategy /\ InitTwin

SpecPullback == InitOnePullback /\ [][pullback_evaluate]_vars

\* note deliveries to MicroTrendPullbackStrategyEvaluator; the other
\* components are in one configuration
InitPullbackStrategyOnly ==
    Init /\ persistence_candles = 2 /\ ~reverse_signal /\ momentum_lookback = 3

SpecPullbackStrategy == InitPullbackStrategyOnly /\ [][PullbackStrategyStep]_vars

\* candle callbacks of EMAgptEvaluator
SpecEMA == Init /\ [][ohlcv_callback]_vars

\* the same candle callbacks delivered to two EMAgptEvaluator instances
SpecEMATwin == Init /\ [][twin_ohlcv_callback]_vars

\* candle callbacks of EMAgptEvaluator, candles told apart
SpecEMACandles == Init /\ [][FreshCandle \/ DuplicateCandle]_vars

\* note deliveries to BTCFuturesScalperStrategy
SpecBTC == Init /\ [][MatrixCallbackStep]_vars

\* the threshold policy and the flip guard driven with every decision value
SpecDecision == Init /\ [][DecisionStep]_vars

\* final evaluations handed to MakerScalpingModeProducer
SpecMaker == Init /\ [][set_final_eval]_vars

(***************************************************************************)
(* Claims                                                                  *)
(***************************************************************************)

\* the last `window` entries of trace ending at position i exist, are all
\* equal and are not zero
LastWindowAgrees(trace, i, window) ==
    /\ i >= window
    /\ trace[i] # 0
    /\ \A j \in (i - window + 1)..i : trace[j] = trace[i]

\* C1: for every sequence of raw signals reaching the persistence step of
\* one (symbol, timeframe), the note at position i is the raw signal when
\* the last N raw signals ending at i are all equal and non-zero, and 0
\* otherwise; with N = 2, [1,1,-1,-1,1] yields [0,1,0,-1,0].
C1_PersistenceFilter ==
    \A p \in Pairs :
        /\ Len(note_trace[p]) = Len(raw_trace[p])
        /\ \A i \in 1..Len(raw_trace[p]) :
               note_trace[p][i] =
                   IF LastWindowAgrees(raw_trace[p], i, persistence_candles)
                   THEN raw_trace[p][i] ELSE 0
        /\ (persistence_candles = 2 /\ raw_trace[p] = <<1, 1, -1, -1, 1>>)
               => note_trace[p] = <<0, 1, 0, -1, 0>>

C1_Witness ==
    \E p \in Pairs :
        /\ persistence_candles = 2
        /\ raw_trace[p] = <<1, 1, -1, -1, 1>>
        /\ Len(note_trace[p]) = 5

\* C2: a create_state call emits a state-change event exactly once if the
\* state it computes differs from the state held before the call, and emits
\* nothing and keeps the state otherwise.
C2_EventIffStateChange ==
    [][ /\ submitted' \in {0, 1}
        /\ (submitted' = 1) <=> (state' # state)
        /\ state' \in {"NEUTRAL", "LONG", "SHORT"} ]_vars

C2_Witness ==
    /\ state = "SHORT"
    /\ submitted = 1
    /\ final_eval = -100

\* C3: after a LONG emission, a SHORT candidate with no NEUTRAL decision in
\* between does not invoke trigger_signal and leaves previous_signal LONG;
\* symmetrically for SHORT followed by LONG.
C3_FlipRejected ==
    [][ /\ (previous_signal = "LONG" /\ neutral_since_emit = 0 /\ candidate' = "SHORT")
              => (triggered' = NoneValue /\ previous_signal' = "LONG")
        /\ (previous_signal = "SHORT" /\ neutral_since_emit = 0 /\ candidate' = "LONG")
              => (triggered' = NoneValue /\ previous_signal' = "SHORT") ]_vars

C3_Witness ==
    /\ previous_signal = "LONG"
    /\ candidate = "SHORT"
    /\ triggered = NoneValue
    /\ neutral_since_emit = 0

\* C4: the producer's state never moves directly from LONG to SHORT or from
\* SHORT to LONG.
C4_NoDirectFlip ==
    [][ /\ ~(state = "LONG" /\ state' = "SHORT")
        /\ ~(state = "SHORT" /\ state' = "LONG") ]_vars

\* C5: after a LONG emission followed by NEUTRAL decisions (as many as the
\* cooldown), a SHORT candidate invokes trigger_signal and previous_signal
\* becomes SHORT; symmetrically for SHORT then LONG.
C5_AcceptedAfterNeutral ==
    [][ /\ (previous_signal = "LONG" /\ neutral_since_emit >= NeutralCap
              /\ candidate' = "SHORT")
              => (triggered' = "SELL" /\ previous_signal' = "SHORT")
        /\ (previous_signal = "SHORT" /\ neutral_since_emit >= NeutralCap
              /\ candidate' = "LONG")
              => (triggered' = "BUY" /\ previous_signal' = "LONG") ]_vars

\* C6: with cooldown_candles = 3, a directional decision arriving 1 or 2
\* candles after a LONG/SHORT -> NEUTRAL transition changes nothing and
\* emits nothing; one arriving 3 or more candles later is honored.
C6_CooldownEnforced ==
    [][ /\ (state = "NEUTRAL" /\ candles_since_exit + 1 < cooldown_candles)
              => (state' = "NEUTRAL" /\ submitted' = 0)
        /\ (state = "NEUTRAL" /\ candles_since_exit + 1 >= cooldown_candles
              /\ final_eval' \in 1..100)
              => (state' = "LONG" /\ submitted' = 1)
        /\ (state = "NEUTRAL" /\ candles_since_exit + 1 >= cooldown_candles
              /\ final_eval' \in -100..-1)
              => (state' = "SHORT" /\ submitted' = 1) ]_vars

C8_NoPartialAggregation ==
    /\ computed => {"1m", "3m", "5m"} \subseteq DOMAIN evaluator_results
    /\ DOMAIN evaluator_results \subseteq {"1m", "3m", "5m"}

C8_Witness ==
    /\ last_timeframe = "15m"
    /\ Cardinality(DOMAIN evaluator_results) = 2
    /\ ~computed

\* C9: once all configured timeframes have reported, the decision is the
\* sum of weight x latest note; notes {1m: 1.0, 3m: 0.0, 5m: -1.0} give 0.3.
C9_WeightedSum ==
    computed =>
        /\ final_signal = 50 * evaluator_results["1m"].note
                        + 30 * evaluator_results["3m"].note
                        + 20 * evaluator_results["5m"].note
        /\ (/\ evaluator_results["1m"].note = 100
            /\ evaluator_results["3m"].note = 0
            /\ evaluator_results["5m"].note = -100) => final_signal = 3000

\* C10: a decision >= 0.60 yields the LONG candidate, a decision <= -0.60
\* the SHORT candidate, any value strictly between the NEUTRAL candidate.
C10_ThresholdPolicy ==
    computed =>
        /\ candidate \in {"LONG", "SHORT", "NEUTRAL"}
        /\ final_signal >= 6000 => candidate = "LONG"
        /\ final_signal <= -6000 => candidate = "SHORT"
        /\ (final_signal > -6000 /\ final_signal < 6000) => candidate = "NEUTRAL"

C10_Witness ==
    /\ computed
    /\ final_signal = 6000
    /\ candidate = "LONG"

\* C11: once 1m, 3m and 5m have reported, a note arriving for a configured
\* timeframe replaces that timeframe's stored note only and triggers one
\* recomputation that reads the latest stored note of every timeframe;
\* stored notes are never removed.
C11_RecomputeOnArrival ==
    [][ /\ DOMAIN evaluator_results \subseteq DOMAIN evaluator_results'
        /\ ({"1m", "3m", "5m"} \subseteq DOMAIN evaluator_results
               /\ last_timeframe' \in {"1m", "3m", "5m"})
              => /\ evaluator_results'[last_timeframe'] = last_matrix'
                 /\ \A tf \in {"1m", "3m", "5m"} \ {last_timeframe'} :
                        evaluator_results'[tf] = evaluator_results[tf]
                 /\ computed'
                 /\ DOMAIN scored' = {"1m", "3m", "5m"}
                 /\ \A tf \in {"1m", "3m", "5m"} :
                        scored'[tf] = evaluator_results'[tf] ]_vars

C11_Witness ==
    /\ computed
    /\ last_timeframe = "3m"
    /\ last_matrix.note = 100
    /\ evaluator_results["3m"].note = 100
    /\ evaluator_results["1m"].note = -100
    /\ DOMAIN scored = {"1m", "3m", "5m"}
    /\ \A tf \in {"1m", "3m", "5m"} : scored[tf] = evaluator_results[tf]

\* C12: the decision computed in a callback for one symbol rests on notes
\* of that symbol only: every stored note that counts toward 'all
\* timeframes present' and is read by the computation was delivered for
\* the symbol of the callback.
C12_SymbolIsolation ==
    computed =>
        \A tf \in {"1m", "3m", "5m"} :
            /\ evaluator_results[tf].symbol = last_matrix.symbol
            /\ scored[tf].symbol = last_matrix.symbol

\* C13: after every matrix_callback of MakerFirstRangeMRStrategy the note
\* is the entry evaluator's note if both evaluator notes are available and
\* the regime note is 1, and the pending sentinel in every other case.
C13_GatedNote ==
    strategy_note =
        IF /\ range_regime_evaluator # NoneValue /\ matrix_regime # MissingNote
           /\ entry_evaluator # NoneValue /\ matrix_entry # MissingNote
           /\ matrix_regime = 1
        THEN matrix_entry
        ELSE Pending

C13_Witness ==
    /\ matrix_regime = 1
    /\ matrix_entry = -1
    /\ strategy_note = -1

\* C14 as stated: the state machine starts in NEUTRAL, so a decision whose
\* target is NEUTRAL, arriving while no directional state is held, changes
\* nothing and emits no event.
C14_FirstNeutralSilent ==
    [][ (state \notin {"LONG", "SHORT"} /\ final_eval' = 0)
            => submitted' = 0 ]_vars

\* C14 amended: the producer starts with no state (None); the first
\* decision, a NEUTRAL target included, sets the state and emits exactly one
\* event, and the state is never None again.
C14_FirstDecisionEmits ==
    [][ /\ state = NoneValue
            => (submitted' = 1 /\ state' \in {"NEUTRAL", "LONG", "SHORT"})
        /\ state # NoneValue => state' # NoneValue ]_vars

C14_Witness ==
    /\ state = "NEUTRAL"
    /\ final_eval = 0
    /\ submitted = 1
    /\ candles_since_exit = cooldown_candles

\* C15: the state handed to _set_state is LONG for d > 0, SHORT for d < 0,
\* NEUTRAL for d = 0 and for the pending sentinel.
C15_TargetBySign ==
    [][ /\ final_eval' \in 1..150 => state' = "LONG"
        /\ final_eval' \in -150..-1 => state' = "SHORT"
        /\ final_eval' \in {0, Pending} => state' = "NEUTRAL" ]_vars

C15_Witness ==
    /\ final_eval = -1
    /\ state = "SHORT"
    /\ submitted = 1

\* C16: a decision outside [-1, 1], or a NaN that is not the pending
\* sentinel, keeps the state and emits no event.
C16_MalformedWithheld ==
    [][ (/\ state \in {"NEUTRAL", "LONG", "SHORT"}
         /\ (final_eval' = NotANumber \/ final_eval' \in 101..150
                \/ final_eval' \in -150..-101))
            => (state' = state /\ submitted' = 0) ]_vars

\* the last `window` entries of trace, or all of it when it is shorter
LatestEntries(trace, window) ==
    IF Len(trace) <= window THEN trace
    ELSE SubSeq(trace, Len(trace) - window + 1, Len(trace))

\* C17: after every callback the history of each (symbol, timeframe) holds
\* at most persistence_candles entries, namely the latest signals of that
\* pair in arrival order (the oldest evicted first), and a callback for one
\* pair leaves the history of every other pair as it was.
C17_BoundedHistory ==
    [][ /\ \A p \in DOMAIN signal_history' :
               /\ Len(signal_history'[p]) <= persistence_candles
               /\ signal_history'[p] = LatestEntries(raw_trace'[p], persistence_candles)
        /\ \A p \in DOMAIN signal_history :
               raw_trace'[p] = raw_trace[p] => signal_history'[p] = signal_history[p]
        /\ Cardinality({p \in DOMAIN signal_history :
                            signal_history'[p] # signal_history[p]}) <= 1 ]_vars

C17_Witness ==
    \E p \in Pairs, q \in Pairs :
        /\ p # q
        /\ p \in DOMAIN signal_history
        /\ q \in DOMAIN signal_history
        /\ Len(raw_trace[p]) > persistence_candles
        /\ Len(signal_history[p]) = persistence_candles
        /\ Len(signal_history[q]) >= 1

\* C18: with fewer closes than the evaluator requires, the evaluator's note
\* is the pending sentinel, not 0 (stated for MeanReversionEntryEvaluator1m,
\* which needs 22 closes; EMAgptEvaluator's case is EvaluateEarlyReturn).
C18_ShortHistoryPending ==
    (mr_published /\ mr_cycle.closes_len < 22) => mr_eval_note = Pending

\* the same statement for RangeRegimeEvaluator15m, which needs 200 closes
RangeRegimeShortHistoryPending ==
    (rr_published /\ rr_cycle.closes_len < 200) => rr_eval_note = Pending


\* C19: a cycle whose price lies in the no-trade zone (relative distance from
\* the slow EMA below dynamic_threshold * 0.8; history sufficient, slope not
\* flat) ends with the note 0 and publishes it.
C19_NoTradeZoneZero ==
    ( /\ cycle_done
      /\ cycle_input.closes_len >= slow_period + 2
      /\ ~SlopeFlat(cycle_input.ema_slow_last, cycle_input.ema_slow_prev)
      /\ InNoTradeZone(cycle_input.price, cycle_input.ema_slow_last,
                       cycle_input.atr) )
    => (eval_note = 0 /\ published)

\* C20: evaluate never raises, and a cycle whose momentum_lookback exceeds the
\* number of closes ends with the pending or the zero note.
C20_NeverRaises ==
    cycle_done =>
        /\ raised = NoneValue
        /\ momentum_lookback > cycle_input.closes_len
               => eval_note \in {Pending, 0}


\* C21: a cycle that publishes no note (insufficient history, flat slope,
\* no-trade zone, index error) leaves the contents of every history as they
\* were: an existing history keeps its entries and a history created by the
\* callback is empty.
C21_SilentCycleKeepsHistory ==
    [][ ~published' =>
          /\ \A p \in DOMAIN signal_history :
                 /\ p \in DOMAIN signal_history'
                 /\ signal_history'[p] = signal_history[p]
          /\ \A p \in (DOMAIN signal_history') \ (DOMAIN signal_history) :
                 signal_history'[p] = << >> ]_vars

C21_Witness ==
    /\ ~published
    /\ raised = "IndexError"
    /\ \E p \in DOMAIN signal_history : Len(signal_history[p]) >= 1


\* C22: a candle delivered a second time changes neither any history nor
\* the note: both are what the first delivery left.
C22_DuplicateIdempotent ==
    [][ duplicate' => (signal_history' = signal_history /\ eval_note' = eval_note)
      ]_vars


\* C23: _compute_score returns the long score or the negated short score,
\* the one of larger magnitude, the long score on a tie, and the result is
\* within [-1, 1].
C23_ScoreSelection ==
    score_done =>
        LET long_score == LongScore(score_input)
            short_score == ShortScore(score_input)
        IN  /\ score \in -100..100
            /\ long_score > short_score => score = long_score
            /\ long_score < short_score => score = 0 - short_score
            /\ long_score = short_score => score = long_score

C23_Witness ==
    /\ score_done
    /\ LongScore(score_input) = ShortScore(score_input)
    /\ score = 20


\* C24: a confirmed pullback in a downtrend (price below the EMA, recent
\* prices rising: buy) returns a negative note, a confirmed pullback in an
\* uptrend (price above the EMA, recent prices falling: sell) returns a
\* positive note, and every returned value lies in [-1, 1].
C24_PullbackSigns ==
    (pullback_done /\ pullback_signal # NoSignal) =>
        /\ pullback_signal \in -100..100
        /\ pullback_input.current_price < pullback_input.current_ema
               => pullback_signal < 0
        /\ pullback_input.current_price > pullback_input.current_ema
               => pullback_signal > 0


\* C25: the entry evaluator's note is -1 only when the close is at or above
\* the current upper Bollinger band with the RSI above the overbought level
\* and falling, +1 only when the close is at or below the current lower band
\* with the RSI below the oversold level and rising, and 0 otherwise.
C25_BandSides ==
    mr_published =>
        LET c == mr_cycle
            long == /\ c.current_close <= c.bb_lower_last
                    /\ c.current_rsi < 30
                    /\ c.current_rsi > c.previous_rsi
            short == /\ c.current_close >= c.bb_upper_last
                     /\ c.current_rsi > 70
                     /\ c.current_rsi < c.previous_rsi
        IN  /\ mr_eval_note = -1 => short
            /\ mr_eval_note = 1 => long
            /\ mr_eval_note \in {-1, 0, 1}


\* C26: a callback changes the strategy note and calls strategy_completed
\* exactly when it delivers a valid, non-pending note of a pullback
\* evaluator with |value| >= 0.3; every other callback leaves the strategy
\* note as it was.
C26_StrongNotesOnly ==
    [][ LET cb == ps_callback'
            strong == /\ cb.evaluator_type = "TA"
                      /\ ~cb.unset
                      /\ cb.evaluator_name \in {"MicroTrendPullbackEvaluator",
                                                "AdvancedMicroTrendPullbackEvaluator"}
                      /\ cb.type_expected
                      /\ cb.eval_note # Pending
                      /\ (cb.eval_note >= 30 \/ cb.eval_note <= -30)
        IN  /\ strong => (ps_eval_note' = cb.eval_note /\ ps_completed')
            /\ ~strong => (ps_eval_note' = ps_eval_note /\ ~ps_completed') ]_vars

C26_Witness ==
    /\ ps_eval_note = 50
    /\ ~ps_completed
    /\ ps_callback.evaluator_type = "TA"
    /\ ps_callback.evaluator_name = "MicroTrendPullbackEvaluator"
    /\ ps_callback.type_expected
    /\ ~ps_callback.unset
    /\ ps_callback.eval_note = 0


\* C27: a directional candidate invokes trigger_signal iff previous_signal
\* is unset or equals the candidate's direction, so a repeated candidate in
\* the held direction invokes it again; a rejected candidate and a neutral
\* candidate leave previous_signal as it was.
C27_EmissionRule ==
    [][ /\ candidate' \in {"LONG", "SHORT"} =>
              IF previous_signal = NoneValue \/ previous_signal = candidate'
              THEN /\ triggered' = (IF candidate' = "LONG" THEN "BUY" ELSE "SELL")
                   /\ previous_signal' = candidate'
              ELSE /\ triggered' = NoneValue
                   /\ previous_signal' = previous_signal
        /\ candidate' = "NEUTRAL" =>
              (triggered' = NoneValue /\ previous_signal' = previous_signal) ]_vars

C27_Witness ==
    /\ signal_before = "SHORT"
    /\ candidate = "SHORT"
    /\ triggered = "SELL"
    /\ previous_signal = "SHORT"


C30_ReversalNegates ==
    /\ twin_published = published
    /\ IF eval_note = Pending
       THEN twin_eval_note = Pending
       ELSE twin_eval_note = 0 - eval_note
    /\ DOMAIN twin_history = DOMAIN signal_history
    /\ \A p \in DOMAIN signal_history :
           /\ Len(twin_history[p]) = Len(signal_history[p])
           /\ \A i \in 1..Len(signal_history[p]) :
                  twin_history[p][i] = 0 - signal_history[p][i]

C30_Witness ==
    /\ published
    /\ eval_note = 1
    /\ twin_eval_note = -1
    /\ \E p \in DOMAIN signal_history :
           /\ Len(signal_history[p]) >= 2
           /\ signal_history[p][1] = -1
           /\ twin_history[p][1] = 1

====
